---- MODULE Spec2Model ----
(***************************************************************************)
(* A model of gh-jj's `clone` pipeline (src/src/main.rs): specifier        *)
(* resolution, the GitHub metadata stage, the supervised `jj git clone`    *)
(* child with its piped stderr, and the `jj git remote add` step.          *)
(*                                                                         *)
(* Strings are sequences of one-character strings, so that the two regexes *)
(* and the URL formatting are computed character by character.  An         *)
(* Option<T> is a sequence of length 0 (None) or 1 (Some).                 *)
(***************************************************************************)
EXTENDS Integers, Sequences, FiniteSets, TLC

VARIABLES
    cmd,                  \* the parsed CloneCommand (input of the run)
    pc,                   \* the position of `clone` in its body
    source,               \* Option<Source>: the parsed specifier
    hosts,                \* Option<gh_config::Hosts>: the loaded credential store
    owner,                \* Option<String>: the owner resolved at lines 100-108
    token,                \* Option<String>: the token retrieved at lines 110-113
    upstream,             \* Option<Repository>: `upstream`, line 89 / 123
    repo_url,             \* Option<String>: `repo_url`, line 91
    cloneArgs,            \* the argument list of the spawned clone command
    child,                \* the jj child process
    pipe,                 \* the child's stderr pipe: lines written and not yet read
    echoed,               \* the lines written by eprintln!, in order
    extracted_directory,  \* Option<PathBuf>, line 149
    waitStatus,           \* what jj_clone.wait() returned: "none", "err", "zero", "nonzero"
    remoteAdd,            \* the argument lists of the issued remote-add invocations
    remoteAddStatus,      \* what the remote-add's status() returned
    calls,                \* the external calls made so far, in order
    result,               \* "running", "ok", or the message of the returned error
    exitCode              \* Option<int>: the exit status of main

vars == <<cmd, pc, source, hosts, owner, token, upstream, repo_url, cloneArgs, child,
          pipe, echoed, extracted_directory, waitStatus, remoteAdd, remoteAddStatus,
          calls, result, exitCode>>

None == <<>>
Some(x) == <<x>>
IsSome(o) == Len(o) = 1
IsNone(o) == Len(o) = 0
Unwrap(o) == o[1]

\* Option::or, as used at line 181.
OptionOr(a, b) == IF IsSome(a) THEN a ELSE b

(***************************************************************************)
(* Bounds of the model.                                                    *)
(***************************************************************************)
MaxLen == 4        \* longest specifier drawn for the resolver
MaxRest == 2       \* longest passthrough argument list
MaxLines == 2      \* most lines the child writes to its stderr
PipeCap == 1       \* lines the stderr pipe holds before the child blocks

RECURSIVE SeqsUpTo(_, _)
SeqsUpTo(S, n) ==
    IF n = 0 THEN {<<>>}
    ELSE LET shorter == SeqsUpTo(S, n - 1)
         IN  shorter \cup {Append(s, x) : s \in {t \in shorter : Len(t) = n - 1}, x \in S}

(***************************************************************************)
(* Characters.  The letters, digits and punctuation the two character      *)
(* classes of the specifier regex tell apart, each with a representative.  *)
(***************************************************************************)
Alnum == {"a", "o", "d", "u", "Z", "0"}
OwnerChars == Alnum \cup {"-"}                \* [a-zA-Z0-9-], line 65
NameChars == Alnum \cup {"_", ".", "-"}       \* [a-zA-Z0-9_.-], line 65
Slash == "/"

\* The characters specifiers are drawn from in the resolver's specification.
SpecifierAlphabet == {"a", "-", "_", ".", "/", ":", "@"}

RECURSIVE AllIn(_, _)
AllIn(s, S) == IF s = <<>> THEN TRUE ELSE Head(s) \in S /\ AllIn(Tail(s), S)

\* The length of the longest prefix of s made of characters of S: what a
\* greedy `[S]+` consumes from the start of s.
RECURSIVE Span(_, _)
Span(s, S) == IF s = <<>> \/ Head(s) \notin S THEN 0 ELSE 1 + Span(Tail(s), S)

Drop(s, n) == SubSeq(s, n + 1, Len(s))
Take(s, n) == SubSeq(s, 1, n)


(***************************************************************************)
(* Source::from_str: the regex  ^(?:([a-zA-Z0-9-]+)\/)?([a-zA-Z0-9_.-]+)$   *)
(* matched as the regex engine matches it.  The optional group is tried    *)
(* first: a greedy run of owner characters that must be followed by "/"    *)
(* (giving characters back cannot help, since the character after a        *)
(* shorter run is an owner character and not "/"), then the name class up  *)
(* to the end of the input.  If that fails the group is skipped and the    *)
(* whole input must be a non-empty run of name characters.                 *)
(***************************************************************************)
GitHub(o, r) == [kind |-> "GitHub", owner |-> o, repo |-> r]
Web(s) == [kind |-> "Web", url |-> s]

MatchWithOwner(s) ==
    LET n == Span(s, OwnerChars)
        rest == Drop(s, n + 1)
    IN  /\ n >= 1
        /\ Len(s) > n
        /\ s[n + 1] = Slash
        /\ rest # <<>>
        /\ AllIn(rest, NameChars)

MatchNameOnly(s) == s # <<>> /\ AllIn(s, NameChars)

FromStr_OwnerClassIsNameClass(s) ==
    LET n == Span(s, NameChars)
    IN  IF n >= 1 /\ Len(s) > n /\ s[n + 1] = Slash
           /\ Drop(s, n + 1) # <<>> /\ AllIn(Drop(s, n + 1), NameChars)
        THEN GitHub(Some(Take(s, n)), Drop(s, n + 1))
        ELSE IF MatchNameOnly(s) THEN GitHub(None, s) ELSE Web(s)

FromStr(s) ==
    IF MatchWithOwner(s)
    THEN LET n == Span(s, OwnerChars)
         IN  GitHub(Some(Take(s, n)), Drop(s, n + 1))
    ELSE IF MatchNameOnly(s)
         THEN GitHub(None, s)
         ELSE Web(s)

(***************************************************************************)
(* The inputs of a run.                                                    *)
(***************************************************************************)
BareName == <<"a">>                        \* a specifier without owner
OwnerName == <<"o", "/", "a">>             \* a specifier with owner
RawUrl == <<"u", ":", "/", "a">>           \* a specifier that is no owner/name
TwoSlashes == <<"o", "/", "a", "/", "a">>  \* more than one separator

Repos == {BareName, OwnerName, RawUrl}
Directories == {None, Some(<<"d">>)}
DefaultRemoteName == <<"u", "p", "s", "t", "r", "e", "a", "m">>   \* line 47
RemoteNames == {DefaultRemoteName, <<"o">>}
RestArgs == {<<"-", "a">>, <<"a">>}
Rests == SeqsUpTo(RestArgs, MaxRest)

Cmds == [repo : Repos, directory : Directories, colocate : BOOLEAN,
         upstream_remote_name : RemoteNames, rest : Rests]

NoChild == [state |-> "none", script |-> <<>>, status |-> 0, written |-> <<>>]

InitWith(c) ==
    /\ cmd = c
    /\ pc = "parse"
    /\ source = None
    /\ hosts = None
    /\ owner = None
    /\ token = None
    /\ upstream = None
    /\ repo_url = None
    /\ cloneArgs = <<>>
    /\ child = NoChild
    /\ pipe = <<>>
    /\ echoed = <<>>
    /\ extracted_directory = None
    /\ waitStatus = "none"
    /\ remoteAdd = <<>>
    /\ remoteAddStatus = "none"
    /\ calls = <<>>
    /\ result = "running"
    /\ exitCode = None

Init == \E c \in Cmds : InitWith(c)

(***************************************************************************)
(* main: the Result of clone becomes the exit status; an Err is reported   *)
(* on stderr by the installed report handler and the status is 1.          *)
(***************************************************************************)
ExitCodeOf_AlwaysZero(r) == 0

ExitCodeOf(r) == IF r = "ok" THEN 0 ELSE 1

\* `return` from clone with result r, and main's exit.
Return(r) ==
    /\ pc' = "done"
    /\ result' = r
    /\ exitCode' = Some(ExitCodeOf(r))

(***************************************************************************)
(* Lines 88-128: the specifier and the metadata stage.                     *)
(***************************************************************************)
\* Line 127: the URL of a Web source.
WebRepoUrl_AsGitHub(url) == <<"h">> \o url

WebRepoUrl(url) == url

\* Line 88 and the match of line 91.
ResolveSource ==
    /\ pc = "parse"
    /\ LET src == FromStr(cmd.repo)
       IN  /\ source' = Some(src)
           /\ \/ /\ src.kind = "GitHub"
                 /\ pc' = "hosts"
                 /\ UNCHANGED repo_url
              \/ /\ src.kind = "Web"
                 /\ repo_url' = Some(WebRepoUrl(src.url))
                 /\ pc' = "spawn"
    /\ UNCHANGED <<cmd, hosts, owner, token, upstream, cloneArgs, child, pipe, echoed,
                   extracted_directory, waitStatus, remoteAdd, remoteAddStatus, calls,
                   result, exitCode>>

\* What the credential store can hold: the github.com entry (absent, or with
\* or without a user) and what retrieve_token answers for it.
UserLogin == <<"u">>
TokenValue == <<"Z">>
HostEntries == {None, Some([user |-> None]), Some([user |-> Some(UserLogin)])}
TokenAnswers == {"err", "none", "some"}
HostsValues == [host : HostEntries, token : TokenAnswers]

\* Line 98: Hosts::load().
LoadHosts ==
    /\ pc = "hosts"
    /\ calls' = Append(calls, "hosts_load")
    /\ \/ /\ Return("Failed to get gh hosts")
          /\ UNCHANGED hosts
       \/ /\ \E h \in HostsValues : hosts' = Some(h)
          /\ pc' = "owner"
          /\ UNCHANGED <<result, exitCode>>
    /\ UNCHANGED <<cmd, source, owner, token, upstream, repo_url, cloneArgs, child, pipe,
                   echoed, extracted_directory, waitStatus, remoteAdd, remoteAddStatus>>

\* Lines 100-108: the owner of the specifier, else the user of github.com.
ResolveOwner_TokenCheckedFirst ==
    /\ pc = "owner"
    /\ LET src == Unwrap(source)
           h == Unwrap(hosts)
       IN  IF IsSome(src.owner)
           THEN /\ owner' = src.owner
                /\ pc' = "token"
                /\ UNCHANGED <<calls, result, exitCode>>
           ELSE IF h.token # "some"
                THEN /\ calls' = Append(calls, "retrieve_token")
                     /\ Return("No github.com token found")
                     /\ UNCHANGED owner
                ELSE /\ calls' = Append(calls, "host_user")
                     /\ IF IsNone(h.host)
                        THEN Return("No github.com host found") /\ UNCHANGED owner
                        ELSE IF IsNone(Unwrap(h.host).user)
                             THEN Return("No github.com user found") /\ UNCHANGED owner
                             ELSE /\ owner' = Unwrap(h.host).user
                                  /\ pc' = "token"
                                  /\ UNCHANGED <<result, exitCode>>
    /\ UNCHANGED <<cmd, source, hosts, token, upstream, repo_url, cloneArgs, child, pipe,
                   echoed, extracted_directory, waitStatus, remoteAdd, remoteAddStatus>>

ResolveOwner ==
    /\ pc = "owner"
    /\ LET src == Unwrap(source)
           h == Unwrap(hosts)
       IN  IF IsSome(src.owner)
           THEN /\ owner' = src.owner
                /\ pc' = "token"
                /\ UNCHANGED <<calls, result, exitCode>>
           ELSE /\ calls' = Append(calls, "host_user")
                /\ IF IsNone(h.host)
                   THEN Return("No github.com host found") /\ UNCHANGED owner
                   ELSE IF IsNone(Unwrap(h.host).user)
                        THEN Return("No github.com user found") /\ UNCHANGED owner
                        ELSE /\ owner' = Unwrap(h.host).user
                             /\ pc' = "token"
                             /\ UNCHANGED <<result, exitCode>>
    /\ UNCHANGED <<cmd, source, hosts, token, upstream, repo_url, cloneArgs, child, pipe,
                   echoed, extracted_directory, waitStatus, remoteAdd, remoteAddStatus>>

\* Lines 110-113: the two `?` on the answer of retrieve_token: the error
\* returned, if any, and the token.
TokenStep_MissingTokenTolerated(answer) ==
    IF answer = "err"
    THEN [err |-> Some("Failed to retrieve github token"), token |-> None]
    ELSE IF answer = "none"
         THEN [err |-> None, token |-> Some(<<>>)]
         ELSE [err |-> None, token |-> Some(TokenValue)]

TokenStep(answer) ==
    IF answer = "err"
    THEN [err |-> Some("Failed to retrieve github token"), token |-> None]
    ELSE IF answer = "none"
         THEN [err |-> Some("No github.com token found"), token |-> None]
         ELSE [err |-> None, token |-> Some(TokenValue)]

\* Lines 110-113: retrieve_token(GITHUB_COM).
RetrieveToken ==
    /\ pc = "token"
    /\ calls' = Append(calls, "retrieve_token")
    /\ LET step == TokenStep(Unwrap(hosts).token)
       IN  IF IsSome(step.err)
           THEN Return(Unwrap(step.err)) /\ UNCHANGED token
           ELSE /\ token' = step.token
                /\ pc' = "client"
                /\ UNCHANGED <<result, exitCode>>
    /\ UNCHANGED <<cmd, source, hosts, owner, upstream, repo_url, cloneArgs, child, pipe,
                   echoed, extracted_directory, waitStatus, remoteAdd, remoteAddStatus>>

\* Line 115: the client is built with the token; build() can fail, and its
\* error is returned as it is (the message here stands for octocrab's own).
BuildClient ==
    /\ pc = "client"
    /\ IsSome(token)
    /\ \/ Return("Failed to build octocrab client")
       \/ pc' = "api" /\ UNCHANGED <<result, exitCode>>
    /\ UNCHANGED <<cmd, source, hosts, owner, token, upstream, repo_url, cloneArgs, child,
                   pipe, echoed, extracted_directory, waitStatus, remoteAdd,
                   remoteAddStatus, calls>>

GithubPrefix == <<"h", "t", "t", "p", "s", ":", "/", "/",
                  "g", "i", "t", "h", "u", "b", ".", "c", "o", "m", "/">>

\* Line 125: format!("https://github.com/{owner}/{repo_name}").
FormatUrl(o, r) == GithubPrefix \o o \o <<Slash>> \o r

\* What the API can answer for a repository: its own html_url (the canonical
\* one, or another after a rename or transfer) and its parent, if it is a fork.
ParentUrl == GithubPrefix \o <<"d", "/", "a">>
MovedUrl == GithubPrefix \o <<"Z", "/", "a">>
Responses(o, r) == [html_url : {FormatUrl(o, r), MovedUrl},
                    parent : {None, Some([url |-> ParentUrl])}]

\* Lines 123-125: what the GitHub arm keeps of the response.
RepoUrlOf_FromResponse(o, r, resp) == resp.html_url

RepoUrlOf(o, r, resp) == FormatUrl(o, r)

UpstreamOf(resp) == resp.parent

\* Lines 117-126: the repository lookup and the values kept from it.
ApiLookup ==
    /\ pc = "api"
    /\ calls' = Append(calls, "api_get")
    /\ LET o == Unwrap(owner)
           r == Unwrap(source).repo
       IN  \/ /\ Return("Failed to get repo info")
              /\ UNCHANGED <<upstream, repo_url>>
           \/ \E resp \in Responses(o, r) :
                 /\ upstream' = UpstreamOf(resp)
                 /\ repo_url' = Some(RepoUrlOf(o, r, resp))
                 /\ pc' = "spawn"
                 /\ UNCHANGED <<result, exitCode>>
    /\ UNCHANGED <<cmd, source, hosts, owner, token, cloneArgs, child, pipe, echoed,
                   extracted_directory, waitStatus, remoteAdd, remoteAddStatus>>


(***************************************************************************)
(* Lines 130-145: the clone command and its spawn.                         *)
(***************************************************************************)
ArgGit == <<"g", "i", "t">>
ArgClone == <<"c", "l", "o", "n", "e">>
ArgColocate == <<"-", "-", "c", "o", "l", "o", "c", "a", "t", "e">>
ArgDashDash == <<"-", "-">>

\* Lines 130-140: the arguments given to `jj`, in order.
CloneArgs_DashDashBeforeRest(c, url) ==
    <<ArgGit, ArgClone>>
        \o (IF c.colocate THEN <<ArgColocate>> ELSE <<>>)
        \o <<url>>
        \o c.directory
        \o (IF c.rest = <<>> THEN <<>> ELSE <<ArgDashDash>> \o c.rest)

CloneArgs(c, url) ==
    <<ArgGit, ArgClone>>
        \o (IF c.colocate THEN <<ArgColocate>> ELSE <<>>)
        \o <<url>>
        \o c.directory
        \o c.rest

\* The lines a jj child may write to its stderr.
Quote == "\""
InvalidByte == "?!"     \* stands for a byte sequence that is not valid UTF-8
FetchingPrefix == <<"F", "e", "t", "c", "h", "i", "n", "g", " ", "i", "n", "t", "o", " ",
                    "n", "e", "w", " ", "r", "e", "p", "o", " ", "i", "n", " ", "\"">>
FetchingLine(path) == FetchingPrefix \o path \o <<Quote>>

LineFetchingE == FetchingLine(<<"e">>)     \* Fetching into new repo in "e"
LineOther == <<"a">>                        \* any other diagnostic
LineInvalid == <<InvalidByte>>              \* a line that is not valid UTF-8

Lines == {LineFetchingE, LineOther, LineInvalid}
Scripts == SeqsUpTo(Lines, MaxLines)
ExitStatuses == {0, 1}

\* Lines 142-148: spawn jj with stderr piped; the child then runs on its own,
\* writing the lines of `script` and exiting with `status`.
SpawnFrom_WaitBeforeRead(scripts) ==
    /\ pc = "spawn"
    /\ cloneArgs' = CloneArgs(cmd, Unwrap(repo_url))
    /\ calls' = calls \o <<"spawn", "wait">>
    /\ \E s \in scripts, st \in ExitStatuses :
          child' = [state |-> "running", script |-> s, status |-> st, written |-> <<>>]
    /\ pc' = "wait"
    /\ UNCHANGED <<cmd, source, hosts, owner, token, upstream, repo_url, pipe, echoed,
                   extracted_directory, waitStatus, remoteAdd, remoteAddStatus, result,
                   exitCode>>

SpawnFrom(scripts) ==
    /\ pc = "spawn"
    /\ cloneArgs' = CloneArgs(cmd, Unwrap(repo_url))
    /\ calls' = Append(calls, "spawn")
    /\ \/ /\ Return("Failed to spawn jj")
          /\ UNCHANGED child
       \/ /\ \E s \in scripts, st \in ExitStatuses :
                child' = [state |-> "running", script |-> s, status |-> st,
                          written |-> <<>>]
          /\ pc' = "read"
          /\ UNCHANGED <<result, exitCode>>
    /\ UNCHANGED <<cmd, source, hosts, owner, token, upstream, repo_url, pipe, echoed,
                   extracted_directory, waitStatus, remoteAdd, remoteAddStatus>>

Spawn == SpawnFrom(Scripts)

(***************************************************************************)
(* The child process: it writes its lines to the pipe while there is room, *)
(* closes its stderr and exits.  Once `clone` has returned the read end is *)
(* gone and a write fails instead of blocking.  `written` keeps the lines  *)
(* that reached the pipe.                                                  *)
(***************************************************************************)
ChildWrite ==
    /\ child.state = "running"
    /\ child.script # <<>>
    /\ IF pc = "done"
       THEN /\ UNCHANGED pipe
            /\ child' = [child EXCEPT !.script = Tail(@)]
       ELSE /\ Len(pipe) < PipeCap
            /\ pipe' = Append(pipe, Head(child.script))
            /\ child' = [child EXCEPT !.script = Tail(@),
                                      !.written = Append(@, Head(child.script))]
    /\ UNCHANGED <<cmd, pc, source, hosts, owner, token, upstream, repo_url, cloneArgs,
                   echoed, extracted_directory, waitStatus, remoteAdd, remoteAddStatus,
                   calls, result, exitCode>>

ChildClose ==
    /\ child.state = "running"
    /\ child.script = <<>>
    /\ child' = [child EXCEPT !.state = "closed"]
    /\ UNCHANGED <<cmd, pc, source, hosts, owner, token, upstream, repo_url, cloneArgs,
                   pipe, echoed, extracted_directory, waitStatus, remoteAdd,
                   remoteAddStatus, calls, result, exitCode>>

ChildExit ==
    /\ child.state = "closed"
    /\ child' = [child EXCEPT !.state = "exited"]
    /\ UNCHANGED <<cmd, pc, source, hosts, owner, token, upstream, repo_url, cloneArgs,
                   pipe, echoed, extracted_directory, waitStatus, remoteAdd,
                   remoteAddStatus, calls, result, exitCode>>

(***************************************************************************)
(* Lines 150-164: the read loop.                                           *)
(***************************************************************************)
Whitespace == {" ", "\t"}

RECURSIVE TrimStart(_)
TrimStart(s) == IF s # <<>> /\ Head(s) \in Whitespace THEN TrimStart(Tail(s)) ELSE s

RECURSIVE TrimEnd(_)
TrimEnd(s) ==
    IF s # <<>> /\ s[Len(s)] \in Whitespace THEN TrimEnd(Take(s, Len(s) - 1)) ELSE s

\* str::trim.
Trim(s) == TrimEnd(TrimStart(s))

\* The regex  ^Fetching into new repo in "(.*)"$  on the trimmed line: the
\* fixed prefix, a greedy (.*) and the last character a quote.
ExtractDir_NoTrim(line) ==
    LET n == Len(FetchingPrefix)
    IN  IF Len(line) >= n + 1 /\ Take(line, n) = FetchingPrefix /\ line[Len(line)] = Quote
        THEN Some(SubSeq(line, n + 1, Len(line) - 1))
        ELSE None

ExtractDir(line) ==
    LET t == Trim(line)
        n == Len(FetchingPrefix)
    IN  IF Len(t) >= n + 1 /\ Take(t, n) = FetchingPrefix /\ t[Len(t)] = Quote
        THEN Some(SubSeq(t, n + 1, Len(t) - 1))
        ELSE None

\* next_line fails on a line that is not valid UTF-8.
ValidUtf8_Lossy(line) == TRUE

ValidUtf8(line) == \A i \in 1..Len(line) : line[i] # InvalidByte

\* Lines 158-163: the directory after one more line.
NextExtracted_LastWins(dir, line) == OptionOr(ExtractDir(line), dir)

NextExtracted(dir, line) == IF IsNone(dir) THEN ExtractDir(line) ELSE dir

\* Line 157: what has been echoed after one more line; the line goes out as
\* it was read, whatever the directory found so far.
NextEchoed_StopAfterFound(out, dir, line) == IF IsNone(dir) THEN Append(out, line) ELSE out

NextEchoed(out, dir, line) == Append(out, line)

\* next_line gives Ok(None) when the pipe is drained and its write end closed.
EndOfStream_WhenDrained(p, c) == p = <<>>

EndOfStream(p, c) == p = <<>> /\ c.state \in {"closed", "exited"}

\* One turn of the loop of lines 152-164; at end of stream, the call of
\* wait() of line 167 (pc = "wait" is that call pending).
ReadLine ==
    /\ pc = "read"
    /\ \/ /\ pipe # <<>>
          /\ pipe' = Tail(pipe)
          /\ IF ValidUtf8(Head(pipe))
             THEN /\ echoed' = NextEchoed(echoed, extracted_directory, Head(pipe))
                  /\ extracted_directory' = NextExtracted(extracted_directory, Head(pipe))
                  /\ UNCHANGED <<pc, result, exitCode>>
             ELSE /\ Return("Failed to read jj output")
                  /\ UNCHANGED <<echoed, extracted_directory>>
          /\ UNCHANGED calls
       \/ /\ EndOfStream(pipe, child)
          /\ pc' = "wait"
          /\ calls' = Append(calls, "wait")
          /\ UNCHANGED <<pipe, echoed, extracted_directory, result, exitCode>>
    /\ UNCHANGED <<cmd, source, hosts, owner, token, upstream, repo_url, cloneArgs, child,
                   waitStatus, remoteAdd, remoteAddStatus>>

(***************************************************************************)
(* Lines 166-200: the exit status, the directory and the remote.           *)
(***************************************************************************)
ArgR == <<"-", "R">>
ArgRemote == <<"r", "e", "m", "o", "t", "e">>
ArgAdd == <<"a", "d", "d">>

\* Lines 184-191: the arguments of the remote-add invocation.
RemoteAddArgs_UrlBeforeName(dir, name, url) ==
    <<ArgR, dir, ArgGit, ArgRemote, ArgAdd, url, name>>

RemoteAddArgs(dir, name, url) == <<ArgR, dir, ArgGit, ArgRemote, ArgAdd, name, url>>

\* Lines 179-182: the directory the remote is added in.
DirectoryOf_ExtractedFirst(c, extracted) == OptionOr(extracted, c.directory)

DirectoryOf_ExtractedOnly(c, extracted) == extracted

DirectoryOf(c, extracted) == OptionOr(c.directory, extracted)

\* Lines 170-173: whether the exit status lets the run go on.
CloneSucceeded_Ignored(status) == TRUE

CloneSucceeded(status) == status = 0

\* Lines 175-177: whether there is an upstream to add.
HasUpstream(up) == IsSome(up)

\* Lines 166-192: wait() returns; then the checks up to the spawn of the
\* remote-add command.
Wait ==
    /\ pc = "wait"
    /\ \/ /\ waitStatus' = "err"
          /\ Return("Failed to execute jj cli")
          /\ UNCHANGED <<remoteAdd, calls>>
       \/ /\ child.state = "exited"
          /\ waitStatus' = IF child.status = 0 THEN "zero" ELSE "nonzero"
          /\ IF ~CloneSucceeded(child.status)
             THEN Return("JJ clone failed") /\ UNCHANGED <<remoteAdd, calls>>
             ELSE IF ~HasUpstream(upstream)
                  THEN Return("ok") /\ UNCHANGED <<remoteAdd, calls>>
                  ELSE LET directory == DirectoryOf(cmd, extracted_directory)
                       IN  IF IsNone(directory)
                           THEN /\ Return("Couldn't find directory")
                                /\ UNCHANGED <<remoteAdd, calls>>
                           ELSE /\ remoteAdd' =
                                      Append(remoteAdd,
                                             RemoteAddArgs(Unwrap(directory),
                                                           cmd.upstream_remote_name,
                                                           Unwrap(upstream).url))
                                /\ calls' = Append(calls, "remote_add")
                                /\ pc' = "remote_add"
                                /\ UNCHANGED <<result, exitCode>>
    /\ UNCHANGED <<cmd, source, hosts, owner, token, upstream, repo_url, cloneArgs, child,
                   pipe, echoed, extracted_directory, remoteAddStatus>>

\* Lines 192-200: the Result of clone for each answer of status().
RemoteAddResult_FailureIgnored(st) ==
    IF st = "err" THEN "Failed to execute jj cli" ELSE "ok"

RemoteAddResult(st) ==
    IF st = "err" THEN "Failed to execute jj cli"
    ELSE IF st = "nonzero" THEN "Failed to add upstream remote"
    ELSE "ok"

\* Lines 192-200: the remote-add command ends.
RemoteAddExit_RetryOnFailure ==
    /\ pc = "remote_add"
    /\ \E st \in {"err", "nonzero", "zero"} :
          /\ remoteAddStatus' = st
          /\ IF st = "nonzero"
             THEN /\ remoteAdd' = Append(remoteAdd, remoteAdd[Len(remoteAdd)])
                  /\ calls' = Append(calls, "remote_add")
                  /\ UNCHANGED <<pc, result, exitCode>>
             ELSE /\ Return(RemoteAddResult(st))
                  /\ UNCHANGED <<remoteAdd, calls>>
    /\ UNCHANGED <<cmd, source, hosts, owner, token, upstream, repo_url, cloneArgs, child,
                   pipe, echoed, extracted_directory, waitStatus>>

RemoteAddExit ==
    /\ pc = "remote_add"
    /\ \E st \in {"err", "nonzero", "zero"} :
          /\ remoteAddStatus' = st
          /\ Return(RemoteAddResult(st))
    /\ UNCHANGED <<cmd, source, hosts, owner, token, upstream, repo_url, cloneArgs, child,
                   pipe, echoed, extracted_directory, waitStatus, remoteAdd, calls>>

Next ==
    \/ ResolveSource
    \/ LoadHosts
    \/ ResolveOwner
    \/ RetrieveToken
    \/ BuildClient
    \/ ApiLookup
    \/ Spawn
    \/ ChildWrite
    \/ ChildClose
    \/ ChildExit
    \/ ReadLine
    \/ Wait
    \/ RemoteAddExit

Spec == Init /\ [][Next]_vars

(***************************************************************************)
(* The read loop on a wider set of stderr lines: two reports with          *)
(* different paths, a report inside surrounding whitespace, and reports    *)
(* with other text before or after.  The command is kept narrow.           *)
(***************************************************************************)
LineFetchingO == FetchingLine(<<"o">>)
LinePadded == <<" ">> \o FetchingLine(<<"d">>) \o <<"\t">>
LinePrefixed == <<"a", " ">> \o FetchingLine(<<"u">>)
LineSuffixed == FetchingLine(<<"u">>) \o <<" ", "a">>

StreamLines == {LineFetchingE, LineFetchingO, LinePadded, LinePrefixed, LineSuffixed,
                LineOther, LineInvalid}
StreamScripts == SeqsUpTo(StreamLines, MaxLines)

StreamCmds == [repo : {OwnerName, RawUrl}, directory : Directories, colocate : {FALSE},
               upstream_remote_name : {DefaultRemoteName}, rest : {<<>>}]

InitStream == \E c \in StreamCmds : InitWith(c)

SpawnStream == SpawnFrom(StreamScripts)

NextStream ==
    \/ ResolveSource
    \/ LoadHosts
    \/ ResolveOwner
    \/ RetrieveToken
    \/ BuildClient
    \/ ApiLookup
    \/ SpawnStream
    \/ ChildWrite
    \/ ChildClose
    \/ ChildExit
    \/ ReadLine
    \/ Wait
    \/ RemoteAddExit

SpecStream == InitStream /\ [][NextStream]_vars

(***************************************************************************)
(* The same run under fair scheduling: the task running `clone` takes its  *)
(* next step whenever it can (an await that is ready is polled), and the   *)
(* child process is scheduled by the operating system.                     *)
(***************************************************************************)
Supervisor ==
    \/ ResolveSource
    \/ LoadHosts
    \/ ResolveOwner
    \/ RetrieveToken
    \/ BuildClient
    \/ ApiLookup
    \/ Spawn
    \/ ReadLine
    \/ Wait
    \/ RemoteAddExit

ChildProcess == ChildWrite \/ ChildClose \/ ChildExit

SpecLive ==
    /\ InitStream
    /\ [][Supervisor \/ ChildProcess]_vars
    /\ WF_vars(Supervisor)
    /\ WF_vars(ChildProcess)


(***************************************************************************)
(* The resolver alone, on every specifier up to MaxLen characters and the  *)
(* named examples.                                                         *)
(***************************************************************************)
SpecifierInputs ==
    SeqsUpTo(SpecifierAlphabet, MaxLen) \cup Repos \cup {TwoSlashes}

InitResolve ==
    \E s \in SpecifierInputs :
        InitWith([repo |-> s, directory |-> None, colocate |-> FALSE,
                  upstream_remote_name |-> DefaultRemoteName, rest |-> <<>>])

SpecResolve == InitResolve /\ [][ResolveSource]_vars

(***************************************************************************)
(* Vocabulary of the properties.                                           *)
(***************************************************************************)
Contains(seq, x) == \E i \in 1..Len(seq) : seq[i] = x

Done == pc = "done"
IsGitHub == IsSome(source) /\ Unwrap(source).kind = "GitHub"
IsWeb == IsSome(source) /\ Unwrap(source).kind = "Web"

\* The error taxonomy, by the messages of the returned errors.
ConfigurationErrors == {"No github.com host found", "No github.com user found"}
AuthenticationErrors == {"Failed to retrieve github token", "No github.com token found"}
RemoteLookupError == "Failed to get repo info"
CloneSpawnError == "Failed to spawn jj"
CloneExitError == "JJ clone failed"
CloneProcessErrors == {CloneSpawnError, CloneExitError}
MissingDirectoryError == "Couldn't find directory"
RemoteWiringError == "Failed to add upstream remote"
MetadataErrors ==
    {"Failed to get gh hosts", "Failed to build octocrab client", RemoteLookupError}
        \cup ConfigurationErrors \cup AuthenticationErrors

ChildExitedWith(statuses) == child.state = "exited" /\ child.status \in statuses
RemoteAddIssued == remoteAdd # <<>>
DirectoryAvailable == IsSome(cmd.directory) \/ IsSome(extracted_directory)

\* The url argument of the clone invocation: after `git clone [--colocate]`.
UrlArg == cloneArgs[IF cmd.colocate THEN 4 ELSE 3]


(***************************************************************************)
(* C1 (as stated): in every run where the clone subprocess exits with a    *)
(* non-zero status, the pipeline ends with the clone-failure error and     *)
(* remote-add is never issued.                                             *)
(***************************************************************************)
C1_NonzeroExitEndsInCloneError ==
    (Done /\ ChildExitedWith({1}))
        => (result \in CloneProcessErrors /\ ~RemoteAddIssued)

(***************************************************************************)
(* C1 (amended): whenever the clone subprocess exits non-zero, remote-add  *)
(* is never issued; and whenever that status is what wait() returned (the  *)
(* stream was read to its end and wait itself did not fail), the run has   *)
(* ended with "JJ clone failed", whatever the fork parent and directories. *)
(***************************************************************************)
C1_ObservedNonzeroExitEndsInCloneError ==
    /\ ChildExitedWith({1}) => ~RemoteAddIssued
    /\ waitStatus = "nonzero" =>
          /\ ChildExitedWith({1})
          /\ Done
          /\ result = CloneExitError
          /\ exitCode = Some(1)
          /\ ~RemoteAddIssued

C1_Witness ==
    /\ Done
    /\ waitStatus = "nonzero"
    /\ IsSome(upstream)
    /\ IsSome(cmd.directory)
    /\ IsSome(extracted_directory)

(***************************************************************************)
(* C2: whenever remote-add is issued, a directory exists and the one       *)
(* passed after -R is the explicit destination if one was given, else the  *)
(* directory discovered on the child's stderr.                             *)
(***************************************************************************)
C2_DirectoryPrecedence ==
    \A i \in 1..Len(remoteAdd) :
        /\ DirectoryAvailable
        /\ remoteAdd[i][1] = ArgR
        /\ remoteAdd[i][2] = IF IsSome(cmd.directory)
                             THEN Unwrap(cmd.directory)
                             ELSE Unwrap(extracted_directory)
        /\ IsNone(cmd.directory) =>
              \E j \in 1..Len(echoed) : ExtractDir(echoed[j]) = Some(remoteAdd[i][2])

C2_Witness ==
    /\ RemoteAddIssued
    /\ IsSome(cmd.directory)
    /\ IsSome(extracted_directory)
    /\ cmd.directory # extracted_directory

(***************************************************************************)
(* C3 (as stated): a finished run reports "Couldn't find directory" iff    *)
(* the clone subprocess exited successfully, a fork parent is present, no  *)
(* destination was given and no line of the stream matched the pattern.    *)
(***************************************************************************)
NoLineMatched(lines) == \A i \in 1..Len(lines) : IsNone(ExtractDir(lines[i]))

C3_MissingDirectoryIffExitedOk ==
    Done =>
        (result = MissingDirectoryError
            <=> /\ ChildExitedWith({0})
                /\ IsSome(upstream)
                /\ IsNone(cmd.directory)
                /\ NoLineMatched(echoed \o pipe \o child.script))

(***************************************************************************)
(* C3 (amended): a finished run reports "Couldn't find directory" iff      *)
(* wait() returned a successful exit status, a fork parent is present, no  *)
(* destination was given and no line read from the stream matched; a       *)
(* successful clone of a non-fork with no discovered directory ends in     *)
(* success.                                                                *)
(***************************************************************************)
C3_MissingDirectoryIffObservedOk ==
    Done =>
        /\ result = MissingDirectoryError
              <=> /\ waitStatus = "zero"
                  /\ IsSome(upstream)
                  /\ IsNone(cmd.directory)
                  /\ NoLineMatched(echoed)
        /\ (waitStatus = "zero" /\ IsNone(upstream) /\ IsNone(cmd.directory)
              /\ NoLineMatched(echoed))
              => result = "ok"

C3_Witness ==
    /\ Done
    /\ result = MissingDirectoryError
    /\ echoed # <<>>


(***************************************************************************)
(* C4: for a Web source the credential store and the API are never         *)
(* consulted, the url given to the clone is the input unchanged, and       *)
(* remote-add is never issued, whatever the clone's outcome.               *)
(***************************************************************************)
MetadataCalls == {"hosts_load", "host_user", "retrieve_token", "api_get"}

C4_RawLocationBypassesMetadata ==
    IsWeb =>
        /\ \A i \in 1..Len(calls) : calls[i] \notin MetadataCalls
        /\ hosts = None /\ token = None /\ upstream = None
        /\ repo_url = Some(cmd.repo)
        /\ cloneArgs # <<>> => UrlArg = cmd.repo
        /\ ~RemoteAddIssued

C4_Witness ==
    /\ IsWeb
    /\ Done
    /\ waitStatus = "zero"
    /\ IsSome(extracted_directory)
    /\ cmd.colocate

(***************************************************************************)
(* C5 (as stated): in a finished run remote-add was issued iff the lookup  *)
(* reported a fork parent, the clone subprocess exited successfully and a  *)
(* directory is available.                                                 *)
(***************************************************************************)
C5_RemoteAddIffExitedOk ==
    Done =>
        (RemoteAddIssued
            <=> (IsSome(upstream) /\ ChildExitedWith({0}) /\ DirectoryAvailable))

(***************************************************************************)
(* C5 (amended): remote-add is issued iff the lookup reported a fork       *)
(* parent, wait() returned a successful exit status and a directory is     *)
(* available; it is issued once, after that status was obtained, as        *)
(* -R <directory> git remote add <upstream_remote_name> <parent url>; a    *)
(* GitHub source without parent never gets one.                            *)
(***************************************************************************)
IndexOf(seq, x) == CHOOSE i \in 1..Len(seq) : seq[i] = x

C5_RemoteAddIffObservedOk ==
    /\ RemoteAddIssued =>
          /\ IsSome(upstream)
          /\ waitStatus = "zero"
          /\ ChildExitedWith({0})
          /\ DirectoryAvailable
          /\ Len(remoteAdd) = 1
          /\ remoteAdd[1] = <<ArgR,
                              Unwrap(OptionOr(cmd.directory, extracted_directory)),
                              ArgGit, ArgRemote, ArgAdd,
                              cmd.upstream_remote_name,
                              ParentUrl>>
          /\ Unwrap(upstream).url = ParentUrl
          /\ Contains(calls, "wait") /\ Contains(calls, "remote_add")
          /\ IndexOf(calls, "wait") < IndexOf(calls, "remote_add")
    /\ (IsSome(upstream) /\ waitStatus = "zero" /\ DirectoryAvailable) => RemoteAddIssued
    /\ (IsGitHub /\ IsNone(upstream)) => ~RemoteAddIssued

C5_Witness ==
    /\ RemoteAddIssued
    /\ IsNone(cmd.directory)
    /\ extracted_directory = Some(<<"e">>)
    /\ cmd.upstream_remote_name = DefaultRemoteName
    /\ cmd.repo = OwnerName

(***************************************************************************)
(* C6: a finished run exits with status 0 iff wait() returned a successful *)
(* exit status and either no fork parent is known or remote-add was issued *)
(* and exited with status zero; every other finished run exits with a      *)
(* non-zero status and an error.                                           *)
(***************************************************************************)
C6_SuccessIffCloneAndWiringOk ==
    Done =>
        LET good == /\ waitStatus = "zero"
                    /\ \/ IsNone(upstream)
                       \/ RemoteAddIssued /\ remoteAddStatus = "zero"
        IN  /\ exitCode = Some(0) <=> good
            /\ good => result = "ok"
            /\ ~good => (exitCode = Some(1) /\ result \notin {"ok", "running"})

C6_Witness ==
    /\ Done
    /\ exitCode = Some(0)
    /\ RemoteAddIssued
    /\ remoteAddStatus = "zero"


(***************************************************************************)
(* C7: the resolver is total, and its result is GitHub{owner, repo} with   *)
(* the captured substrings exactly when the whole input is [owner "/"]     *)
(* name with owner non-empty over [a-zA-Z0-9-] and name non-empty over     *)
(* [a-zA-Z0-9_.-]; every other input gives Web(input).                     *)
(***************************************************************************)
SlashPositions(s) == {i \in 1..Len(s) : s[i] = "/"}

OverClass(s, class) == s # <<>> /\ \A i \in 1..Len(s) : s[i] \in class

OwnerClass == {"a", "o", "d", "u", "Z", "0", "-"}
NameClass == OwnerClass \cup {"_", "."}

ExpectedSource(s) ==
    LET slashes == SlashPositions(s)
    IN  IF slashes = {}
        THEN IF OverClass(s, NameClass) THEN GitHub(None, s) ELSE Web(s)
        ELSE LET k == CHOOSE i \in slashes : TRUE
                 before == SubSeq(s, 1, k - 1)
                 after == SubSeq(s, k + 1, Len(s))
             IN  IF Cardinality(slashes) = 1 /\ OverClass(before, OwnerClass)
                    /\ OverClass(after, NameClass)
                 THEN GitHub(Some(before), after)
                 ELSE Web(s)

C7_ResolverTotalAndExact ==
    /\ pc = "parse" => ENABLED ResolveSource
    /\ pc # "parse" => source = Some(ExpectedSource(cmd.repo))

C7_Witness ==
    /\ IsGitHub
    /\ IsSome(Unwrap(source).owner)
    /\ Len(cmd.repo) = 4
    /\ Contains(Unwrap(source).repo, ".")

(***************************************************************************)
(* C8 (as stated): the clone's arguments are                               *)
(* git clone [--colocate] <url> [<destination>] [-- <passthrough...>].     *)
(***************************************************************************)
C8_ArgsWithSeparator ==
    cloneArgs # <<>> =>
        cloneArgs = <<ArgGit, ArgClone>>
                        \o (IF cmd.colocate THEN <<ArgColocate>> ELSE <<>>)
                        \o repo_url
                        \o cmd.directory
                        \o (IF cmd.rest = <<>> THEN <<>> ELSE <<ArgDashDash>> \o cmd.rest)

(***************************************************************************)
(* C8 (amended): the clone's arguments are                                 *)
(* git clone [--colocate] <url> [<destination>] [<passthrough...>]:        *)
(* --colocate iff the flag was set, the destination iff one was given, the *)
(* passthrough arguments verbatim, in order and last, and no "--" is       *)
(* inserted before them.                                                   *)
(***************************************************************************)
C8_ArgsWithoutSeparator ==
    cloneArgs # <<>> =>
        LET k == IF cmd.colocate THEN 3 ELSE 2
            n == Len(cloneArgs)
        IN  /\ n = k + 1 + Len(cmd.directory) + Len(cmd.rest)
            /\ cloneArgs[1] = ArgGit
            /\ cloneArgs[2] = ArgClone
            /\ cmd.colocate <=> Contains(cloneArgs, ArgColocate)
            /\ cmd.colocate => cloneArgs[3] = ArgColocate
            /\ cloneArgs[k + 1] = Unwrap(repo_url)
            /\ IsSome(cmd.directory) => cloneArgs[k + 2] = Unwrap(cmd.directory)
            /\ \A j \in 1..Len(cmd.rest) : cloneArgs[n - Len(cmd.rest) + j] = cmd.rest[j]
            /\ ~Contains(cloneArgs, ArgDashDash)

C8_Witness ==
    /\ cloneArgs # <<>>
    /\ cmd.colocate
    /\ IsSome(cmd.directory)
    /\ Len(cmd.rest) = 2
    /\ cmd.rest[1] # cmd.rest[2]

(***************************************************************************)
(* C9: when the metadata stage fails (the store cannot be loaded, no host  *)
(* or user for an absent owner, no token, the client or the lookup fails)  *)
(* jj is never spawned and remote-add never issued; when jj cannot be      *)
(* spawned nothing later runs.                                             *)
(***************************************************************************)
OwnerAbsent == IsGitHub /\ IsNone(Unwrap(source).owner)
HostOrUserMissing ==
    IsSome(hosts) /\ (IsNone(Unwrap(hosts).host) \/ IsNone(Unwrap(Unwrap(hosts).host).user))
TokenMissing == IsSome(hosts) /\ Unwrap(hosts).token # "some"
NothingSpawned ==
    /\ ~Contains(calls, "spawn")
    /\ cloneArgs = <<>>
    /\ child = NoChild
    /\ ~RemoteAddIssued

C9_FailFast ==
    /\ result \in MetadataErrors => (Done /\ NothingSpawned)
    /\ (OwnerAbsent /\ HostOrUserMissing) => NothingSpawned
    /\ (IsGitHub /\ TokenMissing) => NothingSpawned
    /\ (IsGitHub /\ pc \notin {"parse", "hosts", "owner", "token", "client", "api"}
          /\ result \notin MetadataErrors)
          => (IsSome(token) /\ Contains(calls, "api_get"))
    /\ result = CloneSpawnError =>
          /\ Done
          /\ child = NoChild
          /\ echoed = <<>>
          /\ ~Contains(calls, "wait")
          /\ ~RemoteAddIssued

C9_Witness ==
    /\ Done
    /\ result = "No github.com token found"
    /\ IsSome(owner)
    /\ IsSome(cmd.directory)

(***************************************************************************)
(* C10: for a GitHub source the url given to the clone is                  *)
(* https://github.com/<owner>/<name>, with <owner> the specifier's owner   *)
(* if present and else the user of the credential store, whatever the API  *)
(* answered.                                                               *)
(***************************************************************************)
C10_CanonicalUrl ==
    (IsGitHub /\ cloneArgs # <<>>) =>
        LET src == Unwrap(source)
            o == IF IsSome(src.owner)
                 THEN Unwrap(src.owner)
                 ELSE Unwrap(Unwrap(Unwrap(hosts).host).user)
        IN  /\ UrlArg = <<"h", "t", "t", "p", "s", ":", "/", "/", "g", "i", "t", "h", "u",
                          "b", ".", "c", "o", "m", "/">> \o o \o <<"/">> \o src.repo
            /\ repo_url = Some(UrlArg)

C10_Witness ==
    /\ IsGitHub
    /\ cloneArgs # <<>>
    /\ IsNone(Unwrap(source).owner)
    /\ IsSome(upstream)


(***************************************************************************)
(* C11: when the clone succeeded and remote-add exits non-zero, the run    *)
(* ends with "Failed to add upstream remote" and does nothing more: the    *)
(* remote-add was the last call, it was issued once, jj was spawned once,  *)
(* and nothing of the run changes afterwards.                              *)
(***************************************************************************)
Count(seq, x) == Cardinality({i \in 1..Len(seq) : seq[i] = x})

\* Everything but the child process, which lives on after the run.
runVars == <<cmd, pc, source, hosts, owner, token, upstream, repo_url, cloneArgs, pipe,
             echoed, extracted_directory, waitStatus, remoteAdd, remoteAddStatus, calls,
             result, exitCode>>

C11_FailedWiringState ==
    remoteAddStatus = "nonzero" =>
        /\ Done
        /\ result = RemoteWiringError
        /\ exitCode = Some(1)
        /\ waitStatus = "zero"
        /\ Len(remoteAdd) = 1
        /\ Count(calls, "spawn") = 1
        /\ Count(calls, "remote_add") = 1
        /\ calls[Len(calls)] = "remote_add"

C11_FailedWiringEndsRun ==
    /\ []C11_FailedWiringState
    /\ [][Done => UNCHANGED runVars]_vars

C11_Witness ==
    /\ Done
    /\ remoteAddStatus = "nonzero"
    /\ IsNone(cmd.directory)


(***************************************************************************)
(* C12: wait() is called only at end of stream, and the exit status is     *)
(* looked at only after every line the child wrote has been echoed and     *)
(* checked against the pattern; no line is processed afterwards.           *)
(***************************************************************************)
RECURSIVE FirstExtracted(_)
FirstExtracted(lines) ==
    IF lines = <<>> THEN None
    ELSE IF IsSome(ExtractDir(Head(lines))) THEN ExtractDir(Head(lines))
         ELSE FirstExtracted(Tail(lines))

WaitCalled == Contains(calls, "wait")

C12_DrainedWhenWaiting ==
    /\ waitStatus # "none" => WaitCalled
    /\ WaitCalled =>
          /\ child.state \in {"closed", "exited"}
          /\ child.script = <<>>
          /\ pipe = <<>>
          /\ echoed = child.written
          /\ extracted_directory = FirstExtracted(child.written)

C12_DrainBeforeWait ==
    /\ []C12_DrainedWhenWaiting
    /\ [][WaitCalled => UNCHANGED <<echoed, extracted_directory, pipe>>]_vars

C12_Witness ==
    /\ waitStatus = "zero"
    /\ Len(child.written) = 2
    /\ IsSome(ExtractDir(child.written[2]))

(***************************************************************************)
(* C13 (as stated): under fair scheduling a spawned child that writes its  *)
(* lines, closes the stream and exits is always eventually awaited.        *)
(***************************************************************************)
ChildSpawned == child.state # "none"

C13_ChildAlwaysAwaited == ChildSpawned ~> WaitCalled

(***************************************************************************)
(* C13 (amended): the supervisor never waits for the exit while the child  *)
(* still has lines to write; under fair scheduling a spawned child always  *)
(* gets to its exit, the run always reaches its end, and the child is      *)
(* awaited unless reading a line failed.                                   *)
(***************************************************************************)
ReadError == "Failed to read jj output"

C13_NeverWaitingOnBlockedChild ==
    ~(pc = "wait" /\ child.state = "running" /\ child.script # <<>>)

C13_NoPipeDeadlock ==
    /\ []C13_NeverWaitingOnBlockedChild
    /\ ChildSpawned ~> child.state = "exited"
    /\ ChildSpawned ~> Done
    /\ ChildSpawned ~> (WaitCalled \/ result = ReadError)
    /\ WaitCalled ~> waitStatus # "none"

C13_Witness ==
    /\ Done
    /\ waitStatus = "zero"
    /\ Len(child.written) > PipeCap

(***************************************************************************)
(* C14: extracted_directory starts absent, becomes the path of the first   *)
(* line, in stream order, that matches, and never changes afterwards.      *)
(***************************************************************************)
C14_SetByFirstMatch == extracted_directory = FirstExtracted(echoed)

C14_WrittenOnce ==
    /\ []C14_SetByFirstMatch
    /\ [][IsSome(extracted_directory) => extracted_directory' = extracted_directory]_vars

C14_Witness ==
    /\ echoed = <<LineFetchingE, LineFetchingO>>
    /\ extracted_directory = Some(<<"e">>)


(***************************************************************************)
(* C15 (as stated): every line the child wrote to its stderr is echoed     *)
(* once, verbatim and in order: when the run has ended, the echoed lines   *)
(* are the written lines.                                                  *)
(***************************************************************************)
C15_EveryWrittenLineEchoed == Done => echoed = child.written

(***************************************************************************)
(* C15 (amended): the echoed lines are always the lines read so far,       *)
(* verbatim and in the order written, matching or not, before or after     *)
(* the directory was found; at end of stream they are all the written      *)
(* lines.  A line on which the read fails is not echoed, nor is any line   *)
(* after it.                                                               *)
(***************************************************************************)
LinesRead == Len(child.written) - Len(pipe)
Undecodable(line) == Contains(line, InvalidByte)

C15_EchoedAreTheLinesRead ==
    /\ result # ReadError => echoed = SubSeq(child.written, 1, LinesRead)
    /\ result = ReadError =>
          /\ echoed = SubSeq(child.written, 1, LinesRead - 1)
          /\ Undecodable(child.written[LinesRead])
    /\ WaitCalled => echoed = child.written

C15_Witness ==
    /\ WaitCalled
    /\ echoed = <<LineFetchingE, LineOther>>

(***************************************************************************)
(* C18: once reading a line has failed the run has ended with "Failed to   *)
(* read jj output": wait() is never called, no exit status is obtained,    *)
(* the lines after the failing one are not echoed and remote-add is never  *)
(* issued, fork parent and explicit destination notwithstanding.           *)
(***************************************************************************)
InvalidLineRead == \E k \in 1..LinesRead : Undecodable(child.written[k])

FirstInvalid == CHOOSE k \in 1..LinesRead :
                    /\ Undecodable(child.written[k])
                    /\ \A j \in 1..(k - 1) : ~Undecodable(child.written[j])

C18_RunEndedAtReadFailure ==
    /\ InvalidLineRead =>
          /\ Done
          /\ result = ReadError
          /\ exitCode = Some(1)
          /\ ~WaitCalled
          /\ waitStatus = "none"
          /\ ~RemoteAddIssued
          /\ remoteAddStatus = "none"
          /\ echoed = SubSeq(child.written, 1, FirstInvalid - 1)
          /\ extracted_directory = FirstExtracted(echoed)
    /\ result = ReadError => InvalidLineRead

C18_ReadFailureEndsRun ==
    /\ []C18_RunEndedAtReadFailure
    /\ [][InvalidLineRead => UNCHANGED runVars]_vars

C18_Witness ==
    /\ result = ReadError
    /\ IsSome(upstream)
    /\ IsSome(cmd.directory)
    /\ ChildExitedWith({0})
    /\ echoed = <<LineFetchingO>>

(***************************************************************************)
(* C19: a line sets the directory only when, leading and trailing          *)
(* whitespace removed, it is  Fetching into new repo in "<path>"  from     *)
(* its first to its last character; text before or after keeps it from     *)
(* matching, surrounding whitespace does not, and what is echoed is the    *)
(* line as written.                                                        *)
(***************************************************************************)
Blank == {" ", "\t"}

Stripped(s) ==
    LET solid == {i \in 1..Len(s) : s[i] \notin Blank}
    IN  IF solid = {} THEN <<>>
        ELSE SubSeq(s, CHOOSE i \in solid : \A j \in solid : i <= j,
                       CHOOSE i \in solid : \A j \in solid : i >= j)

ReportText == <<"F", "e", "t", "c", "h", "i", "n", "g", " ", "i", "n", "t", "o", " ",
                "n", "e", "w", " ", "r", "e", "p", "o", " ", "i", "n", " ">>

\* Whether s is  Fetching into new repo in "<path>"  and nothing else.
IsReport(s) ==
    /\ Len(s) >= Len(ReportText) + 2
    /\ SubSeq(s, 1, Len(ReportText)) = ReportText
    /\ s[Len(ReportText) + 1] = "\""
    /\ s[Len(s)] = "\""

PathOfReport(s) == SubSeq(s, Len(ReportText) + 2, Len(s) - 1)

Reports(lines) == {i \in 1..Len(lines) : IsReport(Stripped(lines[i]))}

C19_OnlyWholeLineReports ==
    /\ echoed = SubSeq(child.written, 1, Len(echoed))
    /\ IsSome(extracted_directory) <=> Reports(echoed) # {}
    /\ \A i \in Reports(echoed) :
          (\A j \in Reports(echoed) : i <= j)
              => extracted_directory = Some(PathOfReport(Stripped(echoed[i])))
    /\ \A i \in 1..Len(echoed) :
          /\ echoed[i] \in {LinePrefixed, LineSuffixed, LineOther} => i \notin Reports(echoed)
          /\ echoed[i] \in {LinePadded, LineFetchingE, LineFetchingO} => i \in Reports(echoed)

C19_Witness ==
    /\ echoed = <<LinePrefixed, LinePadded>>
    /\ extracted_directory = Some(<<"d">>)


(***************************************************************************)
(* C16: in one run the repository lookup is issued at most once, jj is     *)
(* spawned for the clone at most once and remote-add is issued at most     *)
(* once, whatever fails.                                                   *)
(***************************************************************************)
C16_NoRetry ==
    /\ \A c \in {"hosts_load", "host_user", "retrieve_token", "api_get", "spawn", "wait",
                 "remote_add"} : Count(calls, c) <= 1
    /\ Len(remoteAdd) <= 1
    /\ Len(remoteAdd) = Count(calls, "remote_add")

C16_Witness ==
    /\ Done
    /\ result = RemoteWiringError
    /\ Count(calls, "api_get") = 1
    /\ Count(calls, "spawn") = 1
    /\ Count(calls, "remote_add") = 1

(***************************************************************************)
(* C17: the metadata stage resolves the owner, then retrieves the token,   *)
(* then looks the repository up: no lookup without a retrieved token, with *)
(* or without an explicit owner; and with the owner absent and both user   *)
(* and token missing the run fails on the user, not on the token.          *)
(***************************************************************************)
Before(a, b) == Contains(calls, a) /\ Contains(calls, b) /\ IndexOf(calls, a) < IndexOf(calls, b)

C17_MetadataOrder ==
    /\ Contains(calls, "api_get") =>
          /\ token = Some(TokenValue)
          /\ IsSome(owner)
          /\ Before("retrieve_token", "api_get")
    /\ Contains(calls, "retrieve_token") =>
          /\ IsSome(owner)
          /\ OwnerAbsent => Before("host_user", "retrieve_token")
    /\ (OwnerAbsent /\ HostOrUserMissing /\ pc # "owner") =>
          /\ Done
          /\ result \in ConfigurationErrors
          /\ ~Contains(calls, "retrieve_token")
    /\ result \in AuthenticationErrors => (IsSome(owner) /\ ~Contains(calls, "api_get"))

C17_Witness ==
    /\ Done
    /\ OwnerAbsent
    /\ HostOrUserMissing
    /\ TokenMissing
    /\ result = "No github.com user found"

====
